---- MODULE Spec2Model ----
(***************************************************************************)
(* The /query pipeline of the GU TECH chatbot backend: validate, embed,    *)
(* search the vector store, assemble the context, build the prompt,        *)
(* generate, respond.  Two handler variants exist in the repository:       *)
(*   "index_js" : src/index.js (src/unnamed/part_000 has the same logic    *)
(*                and differs only in the wording of its prompts)          *)
(*   "part_001" : src/unnamed/part_001 (extractUrls, createStructuredPrompt)*)
(* A JavaScript string is a sequence of one-character strings; the value   *)
(* undefined is the one-element sequence Undefined, which no string is.    *)
(***************************************************************************)
EXTENDS Integers, Sequences, FiniteSets, TLC

\* ------------------------------------------------------------------ bounds
\* Number of /query requests that may be in flight together.
NumRequests == 2
\* Longest list of records the vector store returns in the assembly runs
\* (the code asks for limit 5 / limit 10).
MaxRecords == 2

\* ----------------------------------------------------------------- strings
Undefined == <<"undefined">>

\* JavaScript truthiness of an optional string: !x is true for undefined and "".
Truthy(s) == s # Undefined /\ s # <<>>

IsSpace(c) == c \in {" ", "\n"}

RECURSIVE TrimStart(_)
TrimStart(s) == IF s # <<>> /\ IsSpace(Head(s)) THEN TrimStart(Tail(s)) ELSE s

RECURSIVE TrimEnd(_)
TrimEnd(s) ==
    IF s # <<>> /\ IsSpace(s[Len(s)]) THEN TrimEnd(SubSeq(s, 1, Len(s) - 1)) ELSE s

\* String.prototype.trim
Trim(s) == TrimEnd(TrimStart(s))

\* Array.prototype.join on an array of strings.
RECURSIVE Join(_, _)
Join(segs, sep) ==
    IF segs = <<>> THEN <<>>
    ELSE IF Len(segs) = 1 THEN segs[1]
    ELSE segs[1] \o sep \o Join(Tail(segs), sep)

\* .filter(Boolean) on an array of optional strings
FilterBoolean(seq) == SelectSeq(seq, Truthy)

\* '\n\n---\n\n'
Separator == <<"\n", "\n", "-", "-", "-", "\n", "\n">>
\* '\nTitle: '
TitleLabel == <<"\n", "T", "i", "t", "l", "e", ":", " ">>
\* '\nSource URL: '
UrlLabel == <<"\n", "S", "o", "u", "r", "c", "e", " ", "U", "R", "L", ":", " ">>
\* '\nSource File: '
FileLabel == <<"\n", "S", "o", "u", "r", "c", "e", " ", "F", "i", "l", "e", ":", " ">>

Variants == {"index_js", "part_001"}

\* ------------------------------------------------------- context assembly
\* index.js: the map callback. item.payload?.x reads undefined when the
\* payload or the field is missing, so a record is its four optional fields.
renderChunk(item) ==
    LET c0 == IF Truthy(item.content) THEN item.content ELSE <<>>
        c1 == IF Truthy(item.title) THEN c0 \o TitleLabel \o item.title ELSE c0
        c2 == IF Truthy(item.url) THEN c1 \o UrlLabel \o item.url ELSE c1
        c3 == IF Truthy(item.source_file) THEN c2 \o FileLabel \o item.source_file ELSE c2
    IN  c3

\* searchResult.map(item => { ... return chunkContent })
mapRenderChunk(searchResult) ==
    [i \in 1..Len(searchResult) |-> renderChunk(searchResult[i])]

\* part_001: item => item.payload?.content
payloadContent(item) == item.content

\* searchResult.map(item => item.payload?.content)
mapPayloadContent(searchResult) ==
    [i \in 1..Len(searchResult) |-> payloadContent(searchResult[i])]

\* A bug the order claims must notice: the chunks joined last to first.
assembleContextReversed(v, searchResult) ==
    LET chunks == FilterBoolean(IF v = "index_js" THEN mapRenderChunk(searchResult)
                                ELSE mapPayloadContent(searchResult))
    IN  Join([i \in 1..Len(chunks) |-> chunks[Len(chunks) + 1 - i]], Separator)

\* searchResult.map(...).filter(Boolean).join('\n\n---\n\n')
assembleContext(v, searchResult) ==
    IF v = "index_js"
    THEN Join(FilterBoolean(mapRenderChunk(searchResult)), Separator)
    ELSE Join(FilterBoolean(mapPayloadContent(searchResult)), Separator)

\* A bug the citation claims must notice: an array push instead of a Set.
RECURSIVE extractUrlsNoDedupe(_)
extractUrlsNoDedupe(searchResult) ==
    IF searchResult = <<>> THEN <<>>
    ELSE LET rest == extractUrlsNoDedupe(SubSeq(searchResult, 1, Len(searchResult) - 1))
             u == searchResult[Len(searchResult)].url
         IN  IF Truthy(u) THEN Append(rest, u) ELSE rest

\* part_001: a Set keeps insertion order and ignores a value it already holds.
RECURSIVE extractUrls(_)
extractUrls(searchResult) ==
    IF searchResult = <<>> THEN <<>>
    ELSE LET rest == extractUrls(SubSeq(searchResult, 1, Len(searchResult) - 1))
             u == searchResult[Len(searchResult)].url
         IN  IF Truthy(u) /\ \A i \in 1..Len(rest) : rest[i] # u
             THEN Append(rest, u) ELSE rest

\* ----------------------------------------------------------------- prompts
\* A prompt is the template chosen and the values interpolated into it.
NoPrompt == [template |-> "none", data |-> Undefined, userQuery |-> Undefined, urls |-> <<>>]

\* part_001: the text interpolated when context is falsy.
NoDataText == <<"N", "o", " ", "d", "a", "t", "a">>

\* index.js: if (context.trim() === "") fallback persona else grounded prompt.
chatInput(context, userQuery) ==
    IF Trim(context) = <<>>
    THEN [template |-> "fallback", data |-> <<>>, userQuery |-> userQuery, urls |-> <<>>]
    ELSE [template |-> "grounded", data |-> context, userQuery |-> userQuery, urls |-> <<>>]

\* part_001: ${context || "No specific data found ..."} and the url section.
createStructuredPrompt(context, userQuery, urls) ==
    [template |-> "structured",
     data |-> IF Truthy(context) THEN context ELSE NoDataText,
     userQuery |-> userQuery,
     urls |-> urls]

buildPrompt(v, context, userQuery, urls) ==
    IF v = "index_js" THEN chatInput(context, userQuery)
    ELSE createStructuredPrompt(context, userQuery, urls)

\* ------------------------------------------------------ service responses
\* Longest wait, in clock ticks, between startTime and the response (part_001).
MaxElapsedMs == 1

\* The message of an error a service call rejects with.
ServiceError == "upstream failure detail"

\* What embedContent can settle with: a rejection, null, an object without
\* embedding, an embedding without values, or values (empty or not).  The
\* 768 numbers of a real vector are one number here.
EmbedResponses ==
    { [tag |-> t, values |-> <<>>] : t \in {"reject", "null", "noEmbedding", "noValues"} }
    \cup { [tag |-> "values", values |-> vs] : vs \in {<<>>, <<1>>} }

\* One record of a search result: its score and the four optional payload fields.
Contents == {Undefined, <<>>, <<"a">>, <<"b">>}
Titles == {Undefined, <<"T">>}
Urls == {Undefined, <<>>, <<"x">>, <<"y">>}
SourceFiles == {Undefined, <<"f">>}
Payloads == [content : Contents, title : Titles, url : Urls, source_file : SourceFiles]

\* The store returns its matches by descending similarity score.
Scored(ps) == [i \in 1..Len(ps) |->
                 [score |-> Len(ps) + 1 - i, content |-> ps[i].content, title |-> ps[i].title,
                  url |-> ps[i].url, source_file |-> ps[i].source_file]]

P(c, t, u, f) == [content |-> c, title |-> t, url |-> u, source_file |-> f]

\* Every result of at most MaxRecords records.
AllSearchResults ==
    { Scored(ps) : ps \in UNION { [1..n -> Payloads] : n \in 0..MaxRecords } }

\* The results the concurrent runs draw from: no match, and two matches that
\* share a url, the second with a title and a source file but no content.
SomeSearchResults ==
    { <<>>,
      Scored(<<P(<<"a">>, Undefined, <<"x">>, Undefined), P(Undefined, <<"T">>, <<"x">>, <<"f">>)>>) }

SearchResponses(results) ==
    { [tag |-> "reject", records |-> <<>>] } \cup { [tag |-> "ok", records |-> rs] : rs \in results }

\* generateContent rejects, or resolves to a result whose response.text()
\* throws (a blocked completion) or returns the text.
GenerateResponses ==
    { [tag |-> "reject", text |-> Undefined], [tag |-> "textThrows", text |-> Undefined],
      [tag |-> "ok", text |-> <<"A">>] }

\* The userQuery of a request body: missing, "", " " or a question.
UserQueries == {Undefined, <<>>, <<" ">>, <<"q">>}

\* ------------------------------------------------------------ the handler
VARIABLES
    variant,   \* which of the repository's server files is running
    req,       \* per request: the handler's position and its local constants
    http,      \* per request: the response sent, status 0 while none is
    io         \* per request: what went in and out, in order (request body,
               \* service calls and what each settled with, console.error, response)

vars == <<variant, req, http, io>>

Requests == 1..NumRequests

NoResult == [tag |-> "none", text |-> Undefined]
NoResponse == [status |-> 0, body |-> [none |-> TRUE]]

IdleLocals ==
    [pc |-> "idle", userQuery |-> Undefined, queryEmbedding |-> <<>>, searchResult |-> <<>>,
     relevantUrls |-> <<>>, context |-> Undefined, prompt |-> NoPrompt, result |-> NoResult]

Event(name, arg) == [ev |-> name, arg |-> arg]

\* What one run of the handler between two awaits does: the new locals, the
\* response sent (NoResponse when none) and the calls and log lines issued.
Step(locals, response, events) == [locals |-> locals, response |-> response, events |-> events]

\* A bug the error claims must notice: the caught message echoed to the client.
ErrorBodyLeaky(v, err) == [error |-> err]

\* The body of the 500 response.
ErrorBody(v, err) ==
    IF v = "index_js"
    THEN [error |-> <<"Failed to fetch answer from AI model or Qdrant. Please check backend logs.">>]
    ELSE [error |-> <<"Server error occurred. Check backend console.">>]

\* The body of the 400 response.
BadRequestBody(v) ==
    IF v = "index_js" THEN [error |-> <<"User query is required.">>]
    ELSE [error |-> <<"Query required">>]

\* catch (err) { console.error(..., err); res.status(500).json({ error: ... }) }
onError(v, s, err) ==
    Step([s EXCEPT !.pc = "done"],
         [status |-> 500, body |-> ErrorBody(v, err)],
         <<Event("console.error", err), Event("respond", 500)>>)

\* A bug the ordering claims must notice: the catch of getEmbedding logs the
\* error and returns nothing instead of throwing.
getEmbeddingSwallow(v, r) ==
    IF r.tag = "values" THEN [threw |-> FALSE, value |-> r.values, error |-> <<>>]
    ELSE [threw |-> FALSE, value |-> <<>>, error |-> <<>>]

\* getEmbedding: throws when the call rejects or !result?.embedding?.values;
\* an empty array is truthy and is returned.  index.js wraps the message,
\* part_001 rethrows the error it caught.
getEmbedding(v, r) ==
    LET cause == IF r.tag = "reject" THEN ServiceError
                 ELSE IF v = "index_js" THEN "Invalid embedding response from Gemini API."
                 ELSE "Invalid embedding response."
    IN  IF r.tag = "values" THEN [threw |-> FALSE, value |-> r.values, error |-> <<>>]
        ELSE [threw |-> TRUE, value |-> <<>>,
              error |-> IF v = "index_js" THEN <<"Failed to generate embedding: ", cause>>
                        ELSE <<cause>>]

\* From the start of the handler to its first await.
onRequest(v, s, userQuery) ==
    IF ~Truthy(userQuery)
    THEN Step([s EXCEPT !.pc = "done", !.userQuery = userQuery],
              [status |-> 400, body |-> BadRequestBody(v)],
              <<Event("request", userQuery), Event("respond", 400)>>)
    ELSE Step([s EXCEPT !.pc = "awaitEmbed", !.userQuery = userQuery],
              NoResponse,
              <<Event("request", userQuery), Event("embed.call", userQuery)>>)

\* From embedContent settling to the await of qdrantClient.search.
afterEmbed(v, s, r) ==
    LET e == getEmbedding(v, r)
    IN  IF e.threw THEN onError(v, s, e.error)
        ELSE Step([s EXCEPT !.pc = "awaitSearch", !.queryEmbedding = e.value],
                  NoResponse,
                  <<Event("search.call", e.value)>>)

\* From the search settling to the await of generateContent.
afterSearch(v, s, r) ==
    IF r.tag = "reject" THEN onError(v, s, <<ServiceError>>)
    ELSE LET urls == IF v = "part_001" THEN extractUrls(r.records) ELSE <<>>
             context == assembleContext(v, r.records)
             prompt == buildPrompt(v, context, s.userQuery, urls)
         IN  Step([s EXCEPT !.pc = "awaitGenerate", !.searchResult = r.records,
                            !.relevantUrls = urls, !.context = context, !.prompt = prompt],
                  NoResponse,
                  <<Event("generate.call", prompt)>>)

\* response.text() and res.json(...): the 200 response of each variant.
sendAnswer(v, s, r, elapsed) ==
    IF r.tag = "textThrows" THEN onError(v, s, <<ServiceError>>)
    ELSE Step([s EXCEPT !.pc = "done", !.result = r],
              [status |-> 200,
               body |-> IF v = "index_js" THEN [answer |-> r.text]
                        ELSE [answer |-> r.text, responseTime |-> <<elapsed, "ms">>,
                              relevantUrls |-> s.relevantUrls,
                              chunksFound |-> Len(s.searchResult)]],
              <<Event("respond", 200)>>)

\* From generateContent settling: part_001 answers at once, index.js first
\* awaits result.response.
afterGenerate(v, s, r, elapsed) ==
    IF r.tag = "reject" THEN onError(v, s, <<ServiceError>>)
    ELSE IF v = "index_js"
    THEN Step([s EXCEPT !.pc = "awaitResponse", !.result = r], NoResponse, <<>>)
    ELSE sendAnswer(v, s, r, elapsed)

\* A bug the isolation claim must notice: userQuery kept in a variable of the
\* module, which the latest request to arrive overwrites.
SharedLocals(r) ==
    LET arrived == { x \in Requests : req[x].pc # "idle" }
        latest == CHOOSE x \in arrived : \A y \in arrived : y <= x
    IN  IF arrived = {} THEN req[r] ELSE [req[r] EXCEPT !.userQuery = req[latest].userQuery]

\* The constants of one invocation of the handler (its closure).
Locals(r) == req[r]

Apply(r, settled, step) ==
    /\ req' = [req EXCEPT ![r] = step.locals]
    /\ http' = [http EXCEPT ![r] = IF step.response.status = 0 THEN @ ELSE step.response]
    /\ io' = [io EXCEPT ![r] = @ \o settled \o step.events]
    /\ UNCHANGED variant

Init ==
    /\ variant \in Variants
    /\ req = [r \in Requests |-> IdleLocals]
    /\ http = [r \in Requests |-> NoResponse]
    /\ io = [r \in Requests |-> <<>>]

\* POST /query arrives and the handler runs to its first await or to the 400.
Receive(r) ==
    /\ req[r].pc = "idle"
    /\ \E q \in UserQueries : Apply(r, <<>>, onRequest(variant, Locals(r), q))

EmbedReturns(r) ==
    /\ req[r].pc = "awaitEmbed"
    /\ \E e \in EmbedResponses :
         Apply(r, <<Event("embed.ret", e)>>, afterEmbed(variant, Locals(r), e))

SearchReturnsWith(r, s) ==
    /\ req[r].pc = "awaitSearch"
    /\ Apply(r, <<Event("search.ret", s)>>, afterSearch(variant, Locals(r), s))

SearchReturns(r) ==
    \E s \in SearchResponses(SomeSearchResults) : SearchReturnsWith(r, s)

GenerateReturns(r) ==
    /\ req[r].pc = "awaitGenerate"
    /\ \E g \in GenerateResponses, elapsed \in 0..MaxElapsedMs :
         Apply(r, <<Event("generate.ret", g)>>, afterGenerate(variant, Locals(r), g, elapsed))

\* index.js: the await of result.response resumes the handler.
ResponseResolves(r) ==
    /\ req[r].pc = "awaitResponse"
    /\ Apply(r, <<>>, sendAnswer(variant, Locals(r), req[r].result, 0))

Next ==
    \E r \in Requests :
        \/ Receive(r)
        \/ EmbedReturns(r)
        \/ SearchReturns(r)
        \/ GenerateReturns(r)
        \/ ResponseResolves(r)

Spec == Init /\ [][Next]_vars

\* The services owe no answer; the event loop does resume a handler whose
\* awaited value is already there.
FairSpec == Spec /\ \A r \in Requests : WF_vars(ResponseResolves(r))

\* The same, with services that always settle: what a timeout would add.
ResponsiveSpec ==
    FairSpec /\ \A r \in Requests :
        WF_vars(EmbedReturns(r)) /\ WF_vars(SearchReturns(r)) /\ WF_vars(GenerateReturns(r))

\* ------------------------------------------------- assembly, every result
\* One request that has been received with the question "q", whose embedding
\* has come back and which awaits the vector store; the store then answers
\* with any result of at most MaxRecords records.
AwaitingSearch(v) ==
    LET s1 == onRequest(v, IdleLocals, <<"q">>)
        e == [tag |-> "values", values |-> <<1>>]
        s2 == afterEmbed(v, s1.locals, e)
    IN  [locals |-> s2.locals, events |-> s1.events \o <<Event("embed.ret", e)>> \o s2.events]

AsmInit ==
    /\ variant \in Variants
    /\ req = [r \in Requests |-> IF r = 1 THEN AwaitingSearch(variant).locals ELSE IdleLocals]
    /\ http = [r \in Requests |-> NoResponse]
    /\ io = [r \in Requests |-> IF r = 1 THEN AwaitingSearch(variant).events ELSE <<>>]

AsmSearchReturns ==
    /\ req[1].pc = "awaitSearch"
    /\ \E s \in SearchResponses(AllSearchResults) : SearchReturnsWith(1, s)

AsmNext == AsmSearchReturns

AsmSpec == AsmInit /\ [][AsmNext]_vars

\* ------------------------------------------------------ reading the io log
Has(r, name) == \E i \in DOMAIN io[r] : io[r][i].ev = name
Count(r, name) == Cardinality({ i \in DOMAIN io[r] : io[r][i].ev = name })
Pos(r, name) == CHOOSE i \in DOMAIN io[r] : io[r][i].ev = name
ArgOf(r, name) == io[r][Pos(r, name)].arg

\* String.prototype.split, to read a context back into its segments.
StartsWith(s, p) == Len(s) >= Len(p) /\ SubSeq(s, 1, Len(p)) = p

RECURSIVE SplitFrom(_, _, _)
SplitFrom(s, sep, cur) ==
    IF s = <<>> THEN <<cur>>
    ELSE IF StartsWith(s, sep)
    THEN <<cur>> \o SplitFrom(SubSeq(s, Len(sep) + 1, Len(s)), sep, <<>>)
    ELSE SplitFrom(Tail(s), sep, Append(cur, Head(s)))

\* The segments of a context: none for the empty context.
Segments(context) == IF context = <<>> THEN <<>> ELSE SplitFrom(context, Separator, <<>>)

\* The records of a result that carry content, in the order of the result.
WithContent(records) == SelectSeq(records, LAMBDA item : Truthy(item.content))

\* ------------------------------------------------------------------ claims
Blank(q) == q = Undefined \/ Trim(q) = <<>>
NoCalls(r) == Count(r, "embed.call") = 0 /\ Count(r, "search.call") = 0
              /\ Count(r, "generate.call") = 0

\* C1: a request whose userQuery is missing, empty or whitespace-only is
\* answered with status 400 and no call to the embedding service, the vector
\* store or the generation service is made for it.
C1_BlankQueryRejected ==
    \A r \in Requests :
        (Has(r, "request") /\ Blank(ArgOf(r, "request")))
            => (http[r].status = 400 /\ NoCalls(r))

\* The part of C1 the code keeps: a missing or empty userQuery.
C1_FalsyQueryRejected ==
    \A r \in Requests :
        (Has(r, "request") /\ ~Truthy(ArgOf(r, "request")))
            => (http[r].status = 400 /\ NoCalls(r))

\* Which branch a prompt is: the 'no data' text or the retrieved context.
PromptBranch(p) ==
    IF p.template = "fallback" \/ (p.template = "structured" /\ p.data = NoDataText)
    THEN "fallback" ELSE "grounded"

NoContentAtAll(records) == \A i \in DOMAIN records : ~Truthy(records[i].content)

\* C2: when the store returns no record, or only records whose content is
\* absent or empty, the prompt sent to the generator is the fallback branch,
\* whatever title, url or source_file the records carry.
C2_FallbackWithoutContent ==
    \A r \in Requests :
        (Has(r, "generate.call") /\ NoContentAtAll(ArgOf(r, "search.ret").records))
            => PromptBranch(ArgOf(r, "generate.call")) = "fallback"

\* A stage fails when its call rejects or throws: embedContent rejecting or
\* getEmbedding refusing a response without values, the search rejecting,
\* generateContent rejecting or response.text() throwing.
EmbedFailed(r) ==
    Has(r, "embed.ret") /\ ArgOf(r, "embed.ret").tag \in {"reject", "null", "noEmbedding", "noValues"}
SearchFailed(r) == Has(r, "search.ret") /\ ArgOf(r, "search.ret").tag = "reject"
GenerateFailed(r) ==
    Has(r, "generate.ret") /\ ArgOf(r, "generate.ret").tag \in {"reject", "textThrows"}

GenericErrors ==
    { <<"Failed to fetch answer from AI model or Qdrant. Please check backend logs.">>,
      <<"Server error occurred. Check backend console.">> }

\* The 500 response: the fixed text, no answer, nothing of the caught error.
GenericFailure(r) ==
    /\ http[r].status = 500
    /\ DOMAIN http[r].body = {"error"}
    /\ http[r].body.error \in GenericErrors
    /\ Has(r, "console.error")
    /\ http[r].body.error # ArgOf(r, "console.error")
    /\ \A i \in DOMAIN http[r].body.error : http[r].body.error[i] # ServiceError

\* C3: when embed, search or generate fails, no later stage is called, the
\* response is the generic 500 body without answer or error text, and no 200
\* response is sent for the request.
C3_FailureAborts ==
    \A r \in Requests :
        /\ EmbedFailed(r) =>
              Count(r, "search.call") = 0 /\ Count(r, "generate.call") = 0 /\ GenericFailure(r)
        /\ SearchFailed(r) => Count(r, "generate.call") = 0 /\ GenericFailure(r)
        /\ GenerateFailed(r) =>
              /\ http[r].status \in {0, 500}
              /\ req[r].pc = "done" => GenericFailure(r)
        /\ (EmbedFailed(r) \/ SearchFailed(r) \/ GenerateFailed(r)) =>
              Count(r, "respond") <= 1 /\ http[r].status # 200

C3_Witness ==
    \E r \in Requests :
        /\ GenerateFailed(r) /\ req[r].pc = "done" /\ http[r].status = 500
        /\ ArgOf(r, "console.error") = <<ServiceError>>

\* The segments of the context that hold a content letter, in order.
ContentLetters == {"a", "b"}
HoldsContent(seg) == \E i \in DOMAIN seg : seg[i] \in ContentLetters
ContentSegments(context) == SelectSeq(Segments(context), HoldsContent)

\* The context keeps the store's order: its content-bearing segments are, one
\* for one and in order, the records with content, by descending score.
KeepsStoreOrder(records, context) ==
    LET rs == WithContent(records)
        segs == ContentSegments(context)
    IN  /\ Len(segs) = Len(rs)
        /\ \A j \in DOMAIN segs : StartsWith(segs[j], rs[j].content)
        /\ \A j, k \in DOMAIN rs : j < k => rs[j].score > rs[k].score
        /\ SelectSeq(context, LAMBDA c : c \in ContentLetters)
             = Join([j \in DOMAIN rs |-> rs[j].content], <<>>)

\* C4 as stated: at least one record returned makes the context non-empty,
\* in the order of the store.
C4_AnyRecordGivesContext ==
    \A r \in Requests :
        (req[r].pc = "awaitGenerate" /\ Truthy(req[r].userQuery) /\ Len(req[r].searchResult) >= 1)
            => /\ req[r].context # <<>>
               /\ KeepsStoreOrder(req[r].searchResult, req[r].context)

\* C4, amended: for a non-empty query, at least one returned record with
\* non-empty content makes the context non-empty, and the segments of the
\* context are in the order the store returned the records.
C4_ContentGivesOrderedContext ==
    \A r \in Requests :
        (req[r].pc = "awaitGenerate" /\ Truthy(req[r].userQuery))
            => /\ WithContent(req[r].searchResult) # <<>> => req[r].context # <<>>
               /\ KeepsStoreOrder(req[r].searchResult, req[r].context)

C4_Witness ==
    \E r \in Requests :
        /\ req[r].pc = "awaitGenerate"
        /\ Len(req[r].searchResult) = 2
        /\ req[r].searchResult[1].content = <<"b">>
        /\ req[r].searchResult[2].content = <<"a">>
        /\ Len(Segments(req[r].context)) = 2

FirstWithUrl(records, u) ==
    CHOOSE i \in DOMAIN records : records[i].url = u /\ \A j \in 1..(i - 1) : records[j].url # u

\* C5: relevantUrls holds every distinct non-empty payload url once, in the
\* order of first appearance, whether or not the record's content is rendered.
C5_CitationSet ==
    \A r \in Requests :
        (variant = "part_001" /\ req[r].pc = "awaitGenerate") =>
            LET urls == req[r].relevantUrls
                rs == req[r].searchResult
            IN  /\ \A i, j \in DOMAIN urls : i # j => urls[i] # urls[j]
                /\ { urls[i] : i \in DOMAIN urls }
                     = { rs[k].url : k \in { k \in DOMAIN rs : Truthy(rs[k].url) } }
                /\ \A i, j \in DOMAIN urls :
                     i < j => FirstWithUrl(rs, urls[i]) < FirstWithUrl(rs, urls[j])
                /\ ArgOf(r, "generate.call").urls = urls

C5_Witness ==
    \E r \in Requests :
        /\ variant = "part_001" /\ req[r].pc = "awaitGenerate"
        /\ Len(req[r].searchResult) = 2
        /\ req[r].searchResult[1].url = <<"y">>
        /\ req[r].searchResult[2].url = <<"y">>
        /\ ~Truthy(req[r].searchResult[1].content)
        /\ req[r].relevantUrls = << <<"y">> >>

Before(r, a, b) == Has(r, a) /\ Has(r, b) /\ Pos(r, a) < Pos(r, b)

\* C6: within one request embed, search and generate run in that order, each
\* called at most once: search only after embed has returned a vector,
\* generate only after search has returned, the 200 response only after
\* generate has returned.
C6_StrictStageOrder ==
    \A r \in Requests :
        /\ Count(r, "embed.call") <= 1 /\ Count(r, "embed.ret") <= 1
        /\ Count(r, "search.call") <= 1 /\ Count(r, "search.ret") <= 1
        /\ Count(r, "generate.call") <= 1 /\ Count(r, "generate.ret") <= 1
        /\ Has(r, "embed.call") => Before(r, "request", "embed.call")
        /\ Has(r, "embed.ret") => Before(r, "embed.call", "embed.ret")
        /\ Has(r, "search.call") =>
              /\ Before(r, "embed.ret", "search.call")
              /\ ArgOf(r, "embed.ret").tag = "values"
              /\ ArgOf(r, "search.call") = ArgOf(r, "embed.ret").values
        /\ Has(r, "search.ret") => Before(r, "search.call", "search.ret")
        /\ Has(r, "generate.call") =>
              /\ Before(r, "search.ret", "generate.call")
              /\ ArgOf(r, "search.ret").tag = "ok"
        /\ Has(r, "generate.ret") => Before(r, "generate.call", "generate.ret")
        /\ http[r].status = 200 =>
              /\ Has(r, "generate.ret") /\ ArgOf(r, "generate.ret").tag = "ok"
              /\ io[r][Len(io[r])] = Event("respond", 200)
              /\ Count(r, "respond") = 1

C6_Witness ==
    \E r, x \in Requests :
        /\ r # x
        /\ http[r].status = 200 /\ Count(r, "generate.ret") = 1
        /\ req[x].pc = "awaitSearch"

AwaitStates == {"awaitEmbed", "awaitSearch", "awaitGenerate", "awaitResponse"}

\* C7: every accepted query eventually reaches Completed or Failed: a call
\* that does not return times out and the client receives the error response.
C7_EventuallyCompletedOrFailed ==
    \A r \in Requests : (req[r].pc \in AwaitStates) ~> (req[r].pc = "done")

\* What request r's prompt and answer are when it runs alone: a function of
\* the body it was sent and of what the services returned to it.
AlonePrompt(r) ==
    LET records == ArgOf(r, "search.ret").records
    IN  buildPrompt(variant, assembleContext(variant, records), ArgOf(r, "request"),
                    IF variant = "part_001" THEN extractUrls(records) ELSE <<>>)

\* C8: however the requests in flight interleave at their awaits, what a
\* request sends to the services and what it answers is what it would be
\* alone: its own userQuery, the vector, the records and the text returned
\* to it (and, in part_001, the time it measured).
C8_RequestsIsolated ==
    \A r \in Requests :
        /\ Has(r, "embed.call") => ArgOf(r, "embed.call") = ArgOf(r, "request")
        /\ Has(r, "search.call") => ArgOf(r, "search.call") = ArgOf(r, "embed.ret").values
        /\ Has(r, "generate.call") => ArgOf(r, "generate.call") = AlonePrompt(r)
        /\ http[r].status = 200 =>
              /\ http[r].body.answer = ArgOf(r, "generate.ret").text
              /\ variant = "part_001" =>
                    /\ http[r].body.relevantUrls = extractUrls(ArgOf(r, "search.ret").records)
                    /\ http[r].body.chunksFound = Len(ArgOf(r, "search.ret").records)
        /\ http[r].status = 400 => ~Truthy(ArgOf(r, "request"))

C8_Witness ==
    \E r, x \in Requests :
        /\ r < x
        /\ http[x].status = 200 /\ req[r].pc = "awaitGenerate"
        /\ ArgOf(r, "request") # ArgOf(x, "request")
        /\ ArgOf(r, "search.ret") # ArgOf(x, "search.ret")
        /\ ArgOf(r, "generate.call") # ArgOf(x, "generate.call")

\* C9: a record whose content is absent or empty contributes no segment to
\* the context, not even one made of its title, url or source file, and the
\* context holds no empty segment.
C9_ContentlessRecordsSkipped ==
    \A r \in Requests :
        req[r].pc = "awaitGenerate" =>
            LET segs == Segments(req[r].context)
            IN  /\ Len(segs) = Len(WithContent(req[r].searchResult))
                /\ \A j \in DOMAIN segs : segs[j] # <<>>

\* C7, of services that always settle.
C7_DoneWhenServicesSettle ==
    \A r \in Requests : (req[r].pc \in AwaitStates) ~> (req[r].pc = "done")

\* What C9 says, of part_001 alone.
C9_SkippedInPart001 ==
    variant = "part_001" => C9_ContentlessRecordsSkipped

\* A response of the embedding service that holds no vector.
NoVector(e) == e.tag # "values" \/ e.values = <<>>

\* C10: getEmbedding throws, so that the request ends in the 500 response and
\* the store is never searched, when the service returns no response, no
\* embedding, no values array or an empty one; it returns a vector only for
\* a non-empty values array.
C10_NoVectorFails ==
    \A r \in Requests :
        (Has(r, "embed.ret") /\ NoVector(ArgOf(r, "embed.ret")))
            => (Count(r, "search.call") = 0 /\ http[r].status = 500)

\* The part of C10 the code keeps: a response without a values array.
C10_MissingValuesFails ==
    \A r \in Requests :
        (Has(r, "embed.ret") /\ ArgOf(r, "embed.ret").tag # "values")
            => (Count(r, "search.call") = 0 /\ http[r].status = 500)

====
